---- MODULE Spec2Model ----
(***************************************************************************)
(* Model of the MCQ pipeline of src/parse.py (MCQProcessor) and            *)
(* src/mcq_generator.py (MCQGenerator).                                    *)
(*                                                                         *)
(* A model response is a text: a sequence of tokens, one token per         *)
(* lexical unit of the reply ("[", "]", "{", "}", ",", ":", string and     *)
(* number literals, whitespace, and prose that is not JSON).  Python       *)
(* values recovered by json.loads are kept as a list of elements, each     *)
(* element being the whitespace-free token sequence of the value.          *)
(***************************************************************************)
EXTENDS Integers, Sequences, FiniteSets, TLC

\* ---------------------------------------------------------------- bounds
MaxLen == 4
MaxChunks == 2
MaxUrls == 2

\* ------------------------------------------------------------ text layer
\* String literals: the keys "question", "options", "topic", some other
\* non-empty string, and the empty string.
StrLits == {"kq", "ko", "kt", "s", "e"}
\* Scalar JSON values: string literals and numbers.
Scalars == StrLits \cup {"n"}
\* Every token a reply can hold: JSON punctuation, scalars, whitespace "w"
\* and prose "p" (text that is no JSON token).
Tokens == {"[", "]", "{", "}", ",", ":", "w", "p"} \cup Scalars

\* str.find(c): 0-based index of the first occurrence, -1 when absent.
find(text, c) ==
    IF \E i \in 1..Len(text) : text[i] = c
    THEN (CHOOSE i \in 1..Len(text) :
              text[i] = c /\ \A j \in 1..(i - 1) : text[j] # c) - 1
    ELSE -1

\* str.rfind(c): 0-based index of the last occurrence, -1 when absent.
rfind(text, c) ==
    IF \E i \in 1..Len(text) : text[i] = c
    THEN (CHOOSE i \in 1..Len(text) :
              text[i] = c /\ \A j \in (i + 1)..Len(text) : text[j] # c) - 1
    ELSE -1

\* text[a:b] for 0 <= a < b <= len(text).
slice(text, a, b) == SubSeq(text, a + 1, b)

\* The JSON decoder skips whitespace between tokens.
skip_ws(text) == SelectSeq(text, LAMBDA c : c # "w")

RECURSIVE ValueEnd(_, _), ItemsEnd(_, _), MembersEnd(_, _)
\* Index just after the JSON value that starts at t[i]; 0 when t[i..] starts
\* no well-formed value.
ValueEnd(t, i) ==
    IF i > Len(t) THEN 0
    ELSE IF t[i] \in Scalars THEN i + 1
    ELSE IF t[i] = "["
         THEN IF i + 1 <= Len(t) /\ t[i + 1] = "]" THEN i + 2
              ELSE ItemsEnd(t, i + 1)
    ELSE IF t[i] = "{"
         THEN IF i + 1 <= Len(t) /\ t[i + 1] = "}" THEN i + 2
              ELSE MembersEnd(t, i + 1)
    ELSE 0

\* Inside an array, an item starts at t[i]: index just after the closing "]".
ItemsEnd(t, i) ==
    LET v == ValueEnd(t, i) IN
    IF v = 0 \/ v > Len(t) THEN 0
    ELSE IF t[v] = "]" THEN v + 1
    ELSE IF t[v] = "," THEN ItemsEnd(t, v + 1)
    ELSE 0

\* Inside an object, a member (string : value) starts at t[i]: index just
\* after the closing "}".
MembersEnd(t, i) ==
    IF i + 1 > Len(t) \/ t[i] \notin StrLits \/ t[i + 1] # ":" THEN 0
    ELSE LET v == ValueEnd(t, i + 2) IN
         IF v = 0 \/ v > Len(t) THEN 0
         ELSE IF t[v] = "}" THEN v + 1
         ELSE IF t[v] = "," THEN MembersEnd(t, v + 1)
         ELSE 0

RECURSIVE ItemsFrom(_, _)
\* The items of a well-formed, non-empty array body starting at t[i].
ItemsFrom(t, i) ==
    LET v == ValueEnd(t, i) IN
    <<SubSeq(t, i, v - 1)>> \o (IF t[v] = "," THEN ItemsFrom(t, v + 1) ELSE <<>>)

\* The list a well-formed array text decodes to.
ArrayItems(t) == IF t[2] = "]" THEN <<>> ELSE ItemsFrom(t, 2)

\* json.loads(json_str): ok is FALSE on JSONDecodeError.  The callers pass
\* text that starts with "[", so a decoded value is a list.
json_loads(json_str) ==
    LET t == skip_ws(json_str) IN
    IF Len(t) > 0 /\ ValueEnd(t, 1) = Len(t) + 1
    THEN [ok |-> TRUE, value |-> IF t[1] = "[" THEN ArrayItems(t) ELSE <<t>>]
    ELSE [ok |-> FALSE, value |-> <<>>]

RECURSIVE MembersFrom(_, _)
\* The (key, value) members of a well-formed, non-empty object body at t[i].
MembersFrom(t, i) ==
    LET v == ValueEnd(t, i + 2) IN
    <<[key |-> t[i], value |-> SubSeq(t, i + 2, v - 1)]>>
        \o (IF t[v] = "," THEN MembersFrom(t, v + 1) ELSE <<>>)

\* A decoded element is a dict when its text is an object.
is_dict(e) == e[1] = "{"

\* dict.get(key, default) on a decoded object: the last member named key.
dict_get(e, key, default) ==
    LET ms == IF e[2] = "}" THEN <<>> ELSE MembersFrom(e, 2)
        hits == {k \in 1..Len(ms) : ms[k].key = key}
    IN IF hits = {} THEN default
       ELSE ms[CHOOSE k \in hits : \A j \in hits : j <= k].value

\* ------------------------------------------------------- model responses
\* What chain.invoke gives: it raises, returns a plain str, or returns a
\* message object that carries the text in .content.
Raise == [kind |-> "raise", text |-> <<>>]
Str(t) == [kind |-> "str", text |-> t]
Msg(t) == [kind |-> "msg", text |-> t]

\* The try block shared by the three stages: slice from the first "[" to
\* the last "]" and decode it, else the stage's fallback.
recover(response_text, fallback) ==
    LET start_idx == find(response_text, "[")
        end_idx == rfind(response_text, "]") + 1
    IN IF start_idx >= 0 /\ end_idx > start_idx
       THEN LET json_str == slice(response_text, start_idx, end_idx)
                decoded == json_loads(json_str)
            IN IF decoded.ok THEN decoded.value ELSE fallback
       ELSE fallback

\* extract_mcqs closing the slice at the first "]" instead of the last.
extract_mcqs_first_close(response) ==
    IF response.kind = "raise" THEN <<>>
    ELSE LET start_idx == find(response.text, "[")
             end_idx == find(response.text, "]") + 1
         IN IF start_idx >= 0 /\ end_idx > start_idx
            THEN LET decoded == json_loads(slice(response.text, start_idx, end_idx))
                 IN IF decoded.ok THEN decoded.value ELSE <<>>
            ELSE <<>>

extract_mcqs(response) ==
    IF response.kind = "raise" THEN <<>>
    ELSE LET response_text == response.text
         IN recover(response_text, <<>>)

\* format_mcqs with extraction's fallback: [] where the input should survive.
format_mcqs_lossy(mcq_data, response) ==
    IF mcq_data = <<>> THEN <<>>
    ELSE IF response.kind = "raise" THEN mcq_data
    ELSE recover(response.text, <<>>)

format_mcqs(mcq_data, response) ==
    IF mcq_data = <<>> THEN <<>>
    ELSE IF response.kind = "raise" THEN mcq_data
    ELSE LET response_text == response.text
         IN recover(response_text, mcq_data)

\* generate_mcqs reads response.content with no hasattr test: on a plain
\* str that raises AttributeError, which the outer except turns into [].
generate_mcqs(response) ==
    IF response.kind = "raise" THEN <<>>
    ELSE IF response.kind = "str" THEN <<>>
    ELSE LET response_text == response.text
         IN recover(response_text, <<>>)

\* process_chunks: the for loop over the chunks, one extract_mcqs call per
\* chunk; replies[k] is what the model answers on the k-th call.  calls is
\* the order in which the chunks were handed to extract_mcqs.
\* all_mcqs = chunk_mcqs in place of all_mcqs.extend(chunk_mcqs).
extend_overwrite(all_mcqs, chunk_mcqs) == chunk_mcqs

extend(all_mcqs, chunk_mcqs) == all_mcqs \o chunk_mcqs

RECURSIVE chunk_loop(_, _, _, _)
chunk_loop(chunks, replies, k, acc) ==
    IF k > Len(chunks) THEN acc
    ELSE LET chunk_mcqs == extract_mcqs(replies[k])
         IN chunk_loop(chunks, replies, k + 1,
                       [all_mcqs |-> extend(acc.all_mcqs, chunk_mcqs),
                        calls |-> Append(acc.calls, chunks[k])])

process_chunks(chunks, replies) ==
    chunk_loop(chunks, replies, 1, [all_mcqs |-> <<>>, calls |-> <<>>])

\* ------------------------------------------------------- reply universe
\* A record with a question, four options and a topic.
Good ==
    <<"{", "kq", ":", "s", ",", "ko", ":", "[", "s", ",", "s", ",", "s", ",",
      "s", "]", ",", "kt", ":", "s", "}">>
\* A record with three options only.
Three ==
    <<"{", "kq", ":", "s", ",", "ko", ":", "[", "s", ",", "s", ",", "s", "]", "}">>
\* A record whose question is the empty string.
NoQuestion ==
    <<"{", "kq", ":", "e", ",", "ko", ":", "[", "s", ",", "s", ",", "s", ",",
      "s", "]", "}">>

\* Reply texts of the shapes a generative model produces.
NoArrayText == <<"p", "w", "p">>
EmptyArrayText == <<"p", "[", "]">>
GoodText == <<"p", "w", "[", "w">> \o Good \o <<"w", "]", "w", "p">>
TwoText == <<"[">> \o Good \o <<",", "w">> \o Three \o <<"]">>
MalformedText == <<"[", "{", "p", "}", "]">>
NumberText == <<"[", "n", "]">>
ThreeText == <<"[">> \o Three \o <<"]", "p">>
MixedText == <<"[", "n", ",">> \o Three \o <<"]">>
EmptyQuestionText == <<"[">> \o NoQuestion \o <<"]">>
BareObjectText == <<"p">> \o Good

ReplyTexts ==
    {NoArrayText, EmptyArrayText, GoodText, TwoText, MalformedText, NumberText,
     ThreeText, MixedText, EmptyQuestionText, BareObjectText}

\* The tokens that decide where the array starts and ends and whether it
\* decodes; the stage operations are exercised on every text of at most
\* MaxLen of them, and on the reply texts above.
ShortTokens == {"[", "]", "{", "}", ",", ":", "n", "kt", "w", "p"}
ResponsesOf(texts) == {Raise} \cup {Str(t) : t \in texts} \cup {Msg(t) : t \in texts}
\* Responses a pipeline run can meet at each model invocation.
RunTexts == {NoArrayText, EmptyArrayText, GoodText, MixedText}
Replies == {Raise} \cup {Str(t) : t \in RunTexts} \cup {Msg(GoodText)}
\* Candidate sequences handed to format_mcqs.
Candidates == {<<>>, <<Good>>, <<Three, Good>>, <<<<"n">>>>}

\* What extract_mcq_content finds in the HTML structure itself: nothing, or
\* records taken from the page's question/option markup.
DirectResults == {<<>>, <<Good>>, <<Good, Good>>}
\* Sources a batch can name, and the batches.
URLS == {"u1", "u2"}
UrlLists == UNION {[1..n -> URLS] : n \in 0..MaxUrls}
\* Topic _extract_topic_from_url derives when the first record names none.
UrlTopic == <<"url_topic">>

\* ---------------------------------------------------------------- state
VARIABLES
    op,            \* stage operation applied last ("init" before any)
    response,      \* the model's response to that operation
    arg,           \* mcq_data given to format_mcqs / chunks given to process_chunks
    chunk_replies, \* the model's responses to process_chunks, per call
    out,           \* the list the operation returned
    calls,         \* chunks in the order process_chunks handed them to extract_mcqs
    urls,          \* batch_process: the sources
    i,             \* batch_process: position of the for loop in urls
    pc,            \* where the batch / the current process_url run stands
    html_content,  \* process_url locals
    mcq_data,
    formatted_mcqs,
    generated_mcqs,
    topic,
    results,       \* batch_process: url -> {formatted, generated}
    files,         \* what save_to_json and batch_process have written
    log            \* the current process_url run's calls, in order

stage_vars == <<op, response, arg, chunk_replies, out, calls>>
run_vars == <<urls, i, pc, html_content, mcq_data, formatted_mcqs,
              generated_mcqs, topic, results, files, log>>
vars == <<op, response, arg, chunk_replies, out, calls, urls, i, pc,
          html_content, mcq_data, formatted_mcqs, generated_mcqs, topic,
          results, files, log>>

NoResults == [u \in {} |-> <<>>]

StageStart ==
    /\ op = "init"
    /\ response = Raise
    /\ arg = <<>>
    /\ chunk_replies = <<>>
    /\ out = <<>>
    /\ calls = <<>>

RunStart ==
    /\ i = 1
    /\ pc = "loop"
    /\ html_content = ""
    /\ mcq_data = <<>>
    /\ formatted_mcqs = <<>>
    /\ generated_mcqs = <<>>
    /\ topic = <<>>
    /\ results = NoResults
    /\ files = NoResults
    /\ log = <<>>

\* ------------------------------------------------- the stages, one call
StageInit == StageStart /\ RunStart /\ urls = <<>>

ExtractOn(r) ==
    /\ op = "init"
    /\ response' = r
    /\ out' = extract_mcqs(r)
    /\ op' = "extract"
    /\ UNCHANGED <<arg, chunk_replies, calls>>
    /\ UNCHANGED run_vars

FormatOn(data, r) ==
    /\ op = "init"
    /\ response' = r
    /\ arg' = data
    /\ out' = format_mcqs(data, r)
    /\ op' = "format"
    /\ UNCHANGED <<chunk_replies, calls>>
    /\ UNCHANGED run_vars

GenerateOn(r) ==
    /\ op = "init"
    /\ response' = r
    /\ out' = generate_mcqs(r)
    /\ op' = "generate"
    /\ UNCHANGED <<arg, chunk_replies, calls>>
    /\ UNCHANGED run_vars

\* One stage call on a reply text, or on a failing model call.
StageOnReply ==
    /\ op = "init"
    /\ \E r \in ResponsesOf(ReplyTexts) :
          \/ ExtractOn(r)
          \/ \E data \in Candidates : FormatOn(data, r)
          \/ GenerateOn(r)

\* One stage call on any short text, returned as a str or in a message.
StageOnShort ==
    /\ op = "init"
    /\ \E n \in 0..MaxLen :
          \E t \in [1..n -> ShortTokens] :
              \E r \in {Str(t), Msg(t)} :
                  \/ ExtractOn(r)
                  \/ \E data \in Candidates : FormatOn(data, r)
                  \/ GenerateOn(r)

ProcessChunks ==
    /\ op = "init"
    /\ \E n \in 0..MaxChunks :
          \E replies \in [1..n -> Replies] :
              LET chunks == [k \in 1..n |-> k]
                  res == process_chunks(chunks, replies)
              IN /\ arg' = chunks
                 /\ chunk_replies' = replies
                 /\ out' = res.all_mcqs
                 /\ calls' = res.calls
    /\ op' = "chunks"
    /\ UNCHANGED response
    /\ UNCHANGED run_vars

StageNext == StageOnReply \/ StageOnShort \/ ProcessChunks

SpecStages == StageInit /\ [][StageNext]_vars

\* ------------------------------------------- process_url / batch_process
\* process_url returns (formatted, generated) to batch_process, which files
\* it under the url and moves to the next one.
Return(formatted, generated) ==
    /\ results' = (urls[i] :> [formatted |-> formatted, generated |-> generated])
                      @@ results
    /\ i' = i + 1
    /\ pc' = "loop"

\* save_to_json(data, file): the file now holds data.
save_to_json(data, kind) == files' = (<<kind, urls[i]>> :> data) @@ files

\* After the formatted list is saved: no generation for an empty list;
\* otherwise the topic is read off the first record with .get, which only
\* a dict has (AttributeError on anything else).
after_save_unguarded(formatted) ==
    IF formatted # <<>> /\ ~is_dict(formatted[1]) THEN "raise" ELSE "generate"

after_save(formatted) ==
    IF formatted = <<>> THEN "return"
    ELSE IF is_dict(formatted[1]) THEN "generate"
    ELSE "raise"

\* process_url without the early return on missing HTML.
ScrapeStepNoExit ==
    /\ pc = "loop"
    /\ i <= Len(urls)
    /\ mcq_data' = <<>>
    /\ formatted_mcqs' = <<>>
    /\ generated_mcqs' = <<>>
    /\ topic' = <<>>
    /\ \E h \in {"", "html"} : html_content' = h
    /\ pc' = "direct"
    /\ log' = <<"scrape_website">>
    /\ UNCHANGED <<urls, files, results, i>>
    /\ UNCHANGED stage_vars

\* batch_process calls process_url on the next url; process_url scrapes it
\* and returns at once when there is no HTML.
ScrapeStep ==
    /\ pc = "loop"
    /\ i <= Len(urls)
    /\ mcq_data' = <<>>
    /\ formatted_mcqs' = <<>>
    /\ generated_mcqs' = <<>>
    /\ topic' = <<>>
    /\ \E h \in {"", "html"} :
          /\ html_content' = h
          /\ IF h = ""
             THEN Return(<<>>, <<>>)
             ELSE /\ pc' = "direct"
                  /\ UNCHANGED <<results, i>>
    /\ log' = <<"scrape_website">>
    /\ UNCHANGED <<urls, files>>
    /\ UNCHANGED stage_vars

\* process_url running the AI extraction whatever the direct one found.
DirectExtractStepAlwaysAI ==
    /\ pc = "direct"
    /\ \E direct \in DirectResults : mcq_data' = direct
    /\ pc' = "ai_extract"
    /\ log' = Append(log, "extract_mcq_content")
    /\ UNCHANGED <<urls, i, html_content, formatted_mcqs, generated_mcqs, topic,
                   results, files>>
    /\ UNCHANGED stage_vars

\* extract_mcq_content on the HTML; its records go straight to formatting.
DirectExtractStep ==
    /\ pc = "direct"
    /\ \E direct \in DirectResults :
          /\ mcq_data' = direct
          /\ pc' = IF direct = <<>> THEN "ai_extract" ELSE "format"
    /\ log' = Append(log, "extract_mcq_content")
    /\ UNCHANGED <<urls, i, html_content, formatted_mcqs, generated_mcqs, topic,
                   results, files>>
    /\ UNCHANGED stage_vars

\* Direct extraction found nothing: clean, split, process_chunks; return
\* ([], []) when that finds nothing either.
AIExtractStep ==
    /\ pc = "ai_extract"
    /\ \E n \in 0..MaxChunks :
          \E replies \in [1..n -> Replies] :
              LET chunks == [k \in 1..n |-> k]
                  res == process_chunks(chunks, replies)
              IN /\ mcq_data' = res.all_mcqs
                 /\ log' = log \o [k \in 1..n |-> "invoke_extract"]
                 /\ IF res.all_mcqs = <<>>
                    THEN Return(<<>>, <<>>)
                    ELSE /\ pc' = "format"
                         /\ UNCHANGED <<results, i>>
    /\ UNCHANGED <<urls, html_content, formatted_mcqs, generated_mcqs, topic, files>>
    /\ UNCHANGED stage_vars

\* process_url writing the file before the formatting call is made.
FormatStepSaveFirst ==
    /\ pc = "format"
    /\ \E r \in Replies : formatted_mcqs' = format_mcqs(mcq_data, r)
    /\ log' = log \o <<"write_formatted", "invoke_format">>
    /\ pc' = "save_formatted"
    /\ UNCHANGED <<urls, i, html_content, mcq_data, generated_mcqs, topic,
                   results, files>>
    /\ UNCHANGED stage_vars

FormatStep ==
    /\ pc = "format"
    /\ \E r \in Replies : formatted_mcqs' = format_mcqs(mcq_data, r)
    /\ log' = IF mcq_data = <<>> THEN log ELSE Append(log, "invoke_format")
    /\ pc' = "save_formatted"
    /\ UNCHANGED <<urls, i, html_content, mcq_data, generated_mcqs, topic,
                   results, files>>
    /\ UNCHANGED stage_vars

\* The formatted list is written; then generation is decided on it.
SaveFormattedStep ==
    /\ pc = "save_formatted"
    /\ save_to_json(formatted_mcqs, "formatted_mcqs")
    /\ log' = Append(log, "write_formatted")
    /\ LET then == after_save(formatted_mcqs)
       IN IF then = "return"
          THEN /\ Return(formatted_mcqs, <<>>)
               /\ UNCHANGED topic
          ELSE IF then = "generate"
          THEN /\ topic' = IF formatted_mcqs = <<>> THEN UrlTopic
                            ELSE dict_get(formatted_mcqs[1], "kt", UrlTopic)
               /\ pc' = "generate"
               /\ UNCHANGED <<results, i>>
          ELSE /\ pc' = "raised"
               /\ UNCHANGED <<topic, results, i>>
    /\ UNCHANGED <<urls, html_content, mcq_data, formatted_mcqs, generated_mcqs>>
    /\ UNCHANGED stage_vars

GenerateStep ==
    /\ pc = "generate"
    /\ \E r \in Replies :
          LET generated == generate_mcqs(r)
          IN /\ generated_mcqs' = generated
             /\ IF generated = <<>>
                THEN Return(formatted_mcqs, generated)
                ELSE /\ pc' = "save_generated"
                     /\ UNCHANGED <<results, i>>
    /\ log' = Append(log, "invoke_generate")
    /\ UNCHANGED <<urls, html_content, mcq_data, formatted_mcqs, topic, files>>
    /\ UNCHANGED stage_vars

SaveGeneratedStep ==
    /\ pc = "save_generated"
    /\ save_to_json(generated_mcqs, "generated_mcqs")
    /\ log' = Append(log, "write_generated")
    /\ Return(formatted_mcqs, generated_mcqs)
    /\ UNCHANGED <<urls, html_content, mcq_data, formatted_mcqs, generated_mcqs, topic>>
    /\ UNCHANGED stage_vars

\* Every url done: batch_results.json is written and results returned.
BatchFinish ==
    /\ pc = "loop"
    /\ i > Len(urls)
    /\ files' = (<<"batch_results", "">> :> results) @@ files
    /\ pc' = "batch_done"
    /\ UNCHANGED <<urls, i, html_content, mcq_data, formatted_mcqs, generated_mcqs,
                   topic, results, log>>
    /\ UNCHANGED stage_vars

Init == StageStart /\ RunStart /\ urls \in UrlLists

Next ==
    \/ ScrapeStep
    \/ DirectExtractStep
    \/ AIExtractStep
    \/ FormatStep
    \/ SaveFormattedStep
    \/ GenerateStep
    \/ SaveGeneratedStep
    \/ BatchFinish

Spec == Init /\ [][Next]_vars

\* ============================================================== claims
\* What the claims say about a reply text, stated on the text itself.
\* A text has an array span when a "[" comes before a "]".
HasSpan(t) == \E a, b \in 1..Len(t) : a < b /\ t[a] = "[" /\ t[b] = "]"
\* The span: from the first "[" through the last "]".
SpanOf(t) ==
    LET a == CHOOSE x \in 1..Len(t) : t[x] = "[" /\ \A j \in 1..(x - 1) : t[j] # "["
        b == CHOOSE x \in 1..Len(t) : t[x] = "]" /\ \A j \in (x + 1)..Len(t) : t[j] # "]"
    IN [j \in 1..(b - a + 1) |-> t[a + j - 1]]
\* An array can be decoded from the text.
Decodable(t) == HasSpan(t) /\ json_loads(SpanOf(t)).ok
DecodedArray(t) == json_loads(SpanOf(t)).value
\* What recovery from a text must give, with [] as the fallback.
Recovered(t) == IF Decodable(t) THEN DecodedArray(t) ELSE <<>>

\* C1: format_mcqs on a non-empty candidate sequence returns that sequence
\* unchanged whenever the model call raises or no array can be decoded from
\* the reply (no "[" or "]", brackets out of order, or a malformed slice).
C1_FormatFallback ==
    (op = "format" /\ arg # <<>>
        /\ (response.kind = "raise" \/ ~Decodable(response.text)))
    => out = arg

\* C1 witness: two candidates, a reply whose bracketed slice is malformed,
\* and the two candidates come back.
C1_Witness ==
    /\ op = "format"
    /\ arg = <<Three, Good>>
    /\ response.kind = "str"
    /\ HasSpan(response.text)
    /\ ~Decodable(response.text)
    /\ out = <<Three, Good>>

\* C2: on a plain-text response generate_mcqs recovers records exactly as
\* extraction does: the decoded array when the first "[" through the last
\* "]" decodes, the empty sequence only when nothing can be decoded.
C2_GenerateRecovers ==
    (op = "generate" /\ response.kind = "str") => out = Recovered(response.text)

\* C3: extract_mcqs returns the decoding of exactly the slice from the first
\* "[" through the last "]" when that slice exists and is well-formed, and
\* the empty list in every other case; the text around the slice plays no
\* part in the result.
C3_ExtractSlice ==
    op = "extract" =>
        out = (IF response.kind = "raise" THEN <<>> ELSE Recovered(response.text))

\* C3 witness: prose before and after the array, and the record inside it
\* is what comes back.
C3_Witness ==
    /\ op = "extract"
    /\ response = Str(GoodText)
    /\ GoodText[1] = "p"
    /\ GoodText[Len(GoodText)] = "p"
    /\ out = <<Good>>

RECURSIVE ConcatResults(_, _)
\* The per-chunk extraction results of replies[k..], one after the other.
ConcatResults(replies, k) ==
    IF k > Len(replies) THEN <<>>
    ELSE extract_mcqs(replies[k]) \o ConcatResults(replies, k + 1)

\* C4: process_chunks hands every chunk to extract_mcqs once, in chunk
\* order, and returns the per-chunk results concatenated in that order; a
\* chunk whose extraction fails adds nothing and the later chunks still run.
C4_ChunksConcatenate ==
    op = "chunks" =>
        /\ calls = arg
        /\ Len(chunk_replies) = Len(arg)
        /\ out = ConcatResults(chunk_replies, 1)

\* C4 witness: the first chunk's reply holds no array, the second chunk's
\* holds one record, and that record is the result.
C4_Witness ==
    /\ op = "chunks"
    /\ Len(arg) = 2
    /\ chunk_replies[1] = Str(NoArrayText)
    /\ chunk_replies[2] = Str(GoodText)
    /\ calls = <<1, 2>>
    /\ out = <<Good>>

\* A record fit to pass downstream: a dict with a non-empty question string
\* and an options array of exactly four items.
ValidRecord(e) ==
    /\ is_dict(e)
    /\ dict_get(e, "kq", <<"e">>) \in {<<x>> : x \in StrLits \ {"e"}}
    /\ LET options == dict_get(e, "ko", <<"n">>)
       IN options[1] = "[" /\ Len(ArrayItems(options)) = 4
AllValid(records) == \A k \in 1..Len(records) : ValidRecord(records[k])

IsWrite(e) == e \in {"write_formatted", "write_generated"}
IsInvoke(e) == e \in {"invoke_extract", "invoke_format", "invoke_generate"}
\* The url of the process_url run that returned last.
LastUrl == urls[i - 1]
Returned == pc = "loop" /\ i > 1

\* C5: process_url never raises because of what the model answered: every
\* run ends by returning a (formatted, generated) pair.
C5_NeverRaises == pc # "raised"

\* C6: every record of a formatted sequence that process_url saved and
\* returned has a non-empty question and exactly four options.
C6_FormattedRecordsValid ==
    \A u \in DOMAIN results : AllValid(results[u].formatted)

\* C7: a run whose source yields no HTML returns ([], []) having made no
\* model invocation and entered no later stage: the fetch is its only call.
C7_NoHtmlNoWork ==
    (Returned /\ html_content = "") =>
        /\ results[LastUrl] = [formatted |-> <<>>, generated |-> <<>>]
        /\ log = <<"scrape_website">>

\* C7 witness: a run on a source without HTML has returned.
C7_Witness ==
    /\ Returned
    /\ html_content = ""
    /\ LastUrl \in DOMAIN results
    /\ results[LastUrl].formatted = <<>>

\* C8: batch_process ends by returning a mapping that holds an entry for
\* every source of the list.
C8_BatchCoversEverySource ==
    pc \in {"batch_done", "raised"} =>
        \A k \in 1..Len(urls) : urls[k] \in DOMAIN results

\* C9 as claimed: within a run every file write comes after the run's last
\* model invocation.
C9_WritesAfterLastInvocation ==
    \A a, b \in 1..Len(log) : (a < b /\ IsWrite(log[a])) => ~IsInvoke(log[b])

\* C9 as amended: no write precedes the formatting call; the formatted
\* write follows the extraction and formatting calls and precedes the
\* generation call; the generated write follows the generation call and is
\* the run's last step.
C9_WritesFollowTheirStage ==
    \A b \in 1..Len(log) :
        /\ log[b] = "write_formatted" =>
              /\ \E a \in 1..(b - 1) : log[a] = "invoke_format"
              /\ \A a \in 1..(b - 1) : ~IsWrite(log[a]) /\ log[a] # "invoke_generate"
              /\ \A c \in (b + 1)..Len(log) :
                     log[c] \in {"invoke_generate", "write_generated"}
        /\ log[b] = "write_generated" =>
              /\ \E a \in 1..(b - 1) : log[a] = "invoke_generate"
              /\ b = Len(log)

\* C9 witness: the formatted file is written and generation is invoked
\* after it.
C9_Witness ==
    \E a, b \in 1..Len(log) :
        a < b /\ log[a] = "write_formatted" /\ log[b] = "invoke_generate"

\* C10: generation is invoked at most once in a run, only after the
\* formatting call, and only on a non-empty formatted sequence; so a result
\* with generated records has formatted records.
C10_GenerationGuarded ==
    /\ Cardinality({k \in 1..Len(log) : log[k] = "invoke_generate"}) <= 1
    /\ \A k \in 1..Len(log) :
          log[k] = "invoke_generate" =>
              /\ \E j \in 1..(k - 1) : log[j] = "invoke_format"
              /\ formatted_mcqs # <<>>
    /\ \A u \in DOMAIN results :
          results[u].generated # <<>> => results[u].formatted # <<>>

\* C10 witness: a run has returned generated records next to formatted ones.
C10_Witness ==
    /\ Returned
    /\ \E k \in 1..Len(log) : log[k] = "invoke_generate"
    /\ results[LastUrl].generated # <<>>
    /\ results[LastUrl].formatted # <<>>

\* How often a call appears in the current run's log.
Count(e, l) == Cardinality({k \in 1..Len(l) : l[k] = e})

\* C11: a run that reaches a non-empty candidate set invokes formatting
\* exactly once, on that set, whether the candidates came from direct
\* extraction or from chunk extraction by the model; a run without
\* candidates never invokes it; and the model extracts from chunks only
\* when direct extraction yielded nothing.
C11_FormatOnceOnCandidates ==
    /\ [](/\ Count("invoke_format", log) <= 1
          /\ pc \in {"save_formatted", "generate", "save_generated", "raised"}
                => (mcq_data # <<>> /\ Count("invoke_format", log) = 1)
          /\ Returned =>
                Count("invoke_format", log) = (IF mcq_data = <<>> THEN 0 ELSE 1)
          /\ pc = "format" => (mcq_data # <<>> /\ Count("invoke_format", log) = 0))
    /\ [][/\ Count("invoke_format", log') > Count("invoke_format", log) =>
                /\ pc = "format"
                /\ mcq_data' = mcq_data
                /\ \E r \in Replies : formatted_mcqs' = format_mcqs(mcq_data, r)
          /\ (pc = "ai_extract" \/ Count("invoke_extract", log') > Count("invoke_extract", log))
                => (pc = "ai_extract" /\ mcq_data = <<>>
                        /\ Count("extract_mcq_content", log) = 1)]_vars

\* C11 witness: direct extraction found records, no chunk went to the
\* model, and formatting has been invoked once on those records.
C11_Witness ==
    /\ pc = "save_formatted"
    /\ mcq_data = <<Good, Good>>
    /\ Count("invoke_extract", log) = 0
    /\ Count("extract_mcq_content", log) = 1
    /\ Count("invoke_format", log) = 1
====
